---- MODULE Spec2Model ----
(***************************************************************************)
(* Model of two pieces of the NeMo fragment:                               *)
(*                                                                         *)
(*  - nemo/collections/common/prompts/llama.py: the Llama2 and Llama3      *)
(*    prompt template tables, together with the formatter operations       *)
(*    (construction, render, render_conversation) that read them;          *)
(*  - nemo/collections/llm/recipes/llama3_8b_flops.py: pretrain_recipe     *)
(*    and finetune_recipe, which build configuration objects.              *)
(*                                                                         *)
(* Python strings are TLA+ strings; Len, \o and SubSeq act on them         *)
(* character by character. Python None is the model value None.            *)
(***************************************************************************)
EXTENDS Integers, Sequences, FiniteSets, TLC

VARIABLES
    family,      \* family of the constructed formatter, or None
    fstatus,     \* "none" | "ready" | "ConfigurationError"
    call,        \* the last formatter call and its arguments
    result,      \* what that call returned or raised
    pre,         \* last pretrain_recipe call: arguments and outcome
    prePrev,     \* the pretrain_recipe call before it
    fin          \* last finetune_recipe call: arguments and outcome

vars == <<family, fstatus, call, result, pre, prePrev, fin>>
fvars == <<family, fstatus, call, result>>
rvars == <<pre, prePrev, fin>>

None == "<None>"

(***************************************************************************)
(* Small string helpers.                                                   *)
(***************************************************************************)
StartsWithAt(s, i, p) ==
    /\ i + Len(p) - 1 <= Len(s)
    /\ SubSeq(s, i, i + Len(p) - 1) = p

RECURSIVE Concat(_)
Concat(ss) == IF ss = <<>> THEN "" ELSE Head(ss) \o Concat(Tail(ss))

WordChars ==
    {"a", "b", "c", "d", "e", "f", "g", "h", "i", "j", "k", "l", "m",
     "n", "o", "p", "q", "r", "s", "t", "u", "v", "w", "x", "y", "z", "_"}

IsWord(s) == Len(s) > 0 /\ \A k \in 1..Len(s) : SubSeq(s, k, k) \in WordChars

(***************************************************************************)
(* formatter.py is imported by llama.py but is not part of the fragment.   *)
(* The two special markers are fixed literal strings.                      *)
(***************************************************************************)
BOS_SLOT == "<BOS>"
EOS_SLOT == "<EOS>"
Text == "Text"

\* A slot called name is written |name| inside a template.
Mangled(name) == "|" \o name \o "|"

(***************************************************************************)
(* llama.py. A template is written in the source as an (f-)string: a       *)
(* sequence of parts, each either an interpolated module constant          *)
(* (const = TRUE) or literal text of the string itself (const = FALSE).    *)
(***************************************************************************)
K(s) == [const |-> TRUE, text |-> s]
L(s) == [const |-> FALSE, text |-> s]

LLAMA3_BOS == "<|begin_of_text|>"
LLAMA3_HEADER_BEGIN == "<|start_header_id|>"
LLAMA3_HEADER_END == "<|end_header_id|>"
LLAMA3_END_OF_TURN == "<|eot_id|>"
LLAMA3_NL == "\n\n"

\* Variants of the tables below, each with one slip in it.
Llama2Template_NoSpace ==
    [ system_and_user |->
        [ parts |-> << K(BOS_SLOT),
                       L("[INST] <<SYS>>\n|system|\n<</SYS>>\n\n|message|[/INST]") >>,
          slots |-> [system |-> Text, message |-> Text] ],
      user |->
        [ parts |-> << L("|bos|[INST] |message| [/INST]") >>,
          slots |-> [message |-> Text] ],
      assistant |->
        [ parts |-> << L("|message|"), K(EOS_SLOT) >>,
          slots |-> [message |-> Text] ] ]

Llama2Template_BosDeclared ==
    [ system_and_user |->
        [ parts |-> << K(BOS_SLOT),
                       L("[INST] <<SYS>>\n|system|\n<</SYS>>\n\n|message| [/INST]") >>,
          slots |-> [system |-> Text, message |-> Text] ],
      user |->
        [ parts |-> << L("|bos|[INST] |message| [/INST]") >>,
          slots |-> [bos |-> Text, message |-> Text] ],
      assistant |->
        [ parts |-> << L("|message| "), K(EOS_SLOT) >>,
          slots |-> [message |-> Text] ] ]

Llama2Template_WithSystem ==
    [ system_and_user |->
        [ parts |-> << K(BOS_SLOT),
                       L("[INST] <<SYS>>\n|system|\n<</SYS>>\n\n|message| [/INST]") >>,
          slots |-> [system |-> Text, message |-> Text] ],
      system |->
        [ parts |-> << K(BOS_SLOT), L("[INST] <<SYS>>\n|message|\n<</SYS>>\n\n") >>,
          slots |-> [message |-> Text] ],
      user |->
        [ parts |-> << L("|bos|[INST] |message| [/INST]") >>,
          slots |-> [message |-> Text] ],
      assistant |->
        [ parts |-> << L("|message| "), K(EOS_SLOT) >>,
          slots |-> [message |-> Text] ] ]

Llama3Turn_OneNewline(role) ==
    [ parts |-> << K(LLAMA3_HEADER_BEGIN), L(role), K(LLAMA3_HEADER_END),
                   K("\n"), L("|message|"), K(LLAMA3_END_OF_TURN) >>,
      slots |-> [message |-> Text] ]

Llama3Turn_EotFirst(role) ==
    [ parts |-> << K(LLAMA3_HEADER_BEGIN), L(role), K(LLAMA3_HEADER_END),
                   K(LLAMA3_NL), K(LLAMA3_END_OF_TURN), L("|message|") >>,
      slots |-> [message |-> Text] ]

Llama2Template ==
    [ system_and_user |->
        [ parts |-> << K(BOS_SLOT),
                       L("[INST] <<SYS>>\n|system|\n<</SYS>>\n\n|message| [/INST]") >>,
          slots |-> [system |-> Text, message |-> Text] ],
      user |->
        [ parts |-> << L("|bos|[INST] |message| [/INST]") >>,
          slots |-> [message |-> Text] ],
      assistant |->
        [ parts |-> << L("|message| "), K(EOS_SLOT) >>,
          slots |-> [message |-> Text] ] ]

Llama3Turn(role) ==
    [ parts |-> << K(LLAMA3_HEADER_BEGIN), L(role), K(LLAMA3_HEADER_END),
                   K(LLAMA3_NL), L("|message|"), K(LLAMA3_END_OF_TURN) >>,
      slots |-> [message |-> Text] ]

Llama3Template ==
    [ preamble  |-> [ parts |-> << K(LLAMA3_BOS) >> ],
      system    |-> Llama3Turn("system"),
      user      |-> Llama3Turn("user"),
      assistant |-> Llama3Turn("assistant") ]

\* The registry of families: NAME -> TEMPLATE.
Families == {"llama2", "llama3"}
TEMPLATE(f) == IF f = "llama2" THEN Llama2Template ELSE Llama3Template

\* The value of the template string once the f-string has been evaluated.
TemplateString(entry) ==
    Concat([k \in 1..Len(entry.parts) |-> entry.parts[k].text])

\* The declared slot names of a table entry (an entry may have no "slots").
GetSlots(entry) ==
    IF "slots" \in DOMAIN entry THEN DOMAIN entry.slots ELSE {}

\* The names written as |name| in the literal text of a template.
PlaceholdersIn(s) ==
    { SubSeq(s, i + 1, j - 1) :
        <<i, j>> \in { p \in (1..Len(s)) \X (1..Len(s)) :
                        /\ p[1] + 1 < p[2]
                        /\ SubSeq(s, p[1], p[1]) = "|"
                        /\ SubSeq(s, p[2], p[2]) = "|"
                        /\ IsWord(SubSeq(s, p[1] + 1, p[2] - 1)) } }

Placeholders(entry) ==
    UNION { IF entry.parts[k].const THEN {} ELSE PlaceholdersIn(entry.parts[k].text) :
            k \in 1..Len(entry.parts) }

WellFormed(table) ==
    \A r \in DOMAIN table : Placeholders(table[r]) = GetSlots(table[r])

(***************************************************************************)
(* render(role, slot_values).                                              *)
(***************************************************************************)
Ok(s) == [status |-> "ok", text |-> s, error |-> None]
Raise(e) == [status |-> "error", text |-> None, error |-> e]

\* One left-to-right pass over the template: a declared slot's |name| is
\* replaced by its value, every other character is copied.
RECURSIVE Substitute(_, _, _)
Substitute(t, sv, i) ==
    IF i > Len(t) THEN ""
    ELSE LET hits == {n \in DOMAIN sv : StartsWithAt(t, i, Mangled(n))}
         IN  IF hits # {}
             THEN LET n == CHOOSE n \in hits : TRUE
                  IN  sv[n] \o Substitute(t, sv, i + Len(Mangled(n)))
             ELSE SubSeq(t, i, i) \o Substitute(t, sv, i + 1)

Render(table, role, sv) ==
    IF role \notin DOMAIN table THEN Raise("UnknownRoleError")
    ELSE LET entry == table[role]
         IN  IF GetSlots(entry) \ DOMAIN sv # {} THEN Raise("MissingSlotError")
             ELSE IF DOMAIN sv \ GetSlots(entry) # {} THEN Raise("UnexpectedSlotError")
             ELSE Ok(Substitute(TemplateString(entry), sv, 1))

\* render_conversation(turns): render each turn in order and append it to
\* the prompt built so far; a failing turn's error ends the call.
RECURSIVE ConversationFrom(_, _, _, _)
ConversationFrom(table, turns, i, acc) ==
    IF i > Len(turns) THEN Ok(acc)
    ELSE LET r == Render(table, turns[i].role, turns[i].sv)
         IN  IF r.status = "error" THEN r
             ELSE ConversationFrom(table, turns, i + 1, acc \o r.text)

RenderConversation(table, turns) == ConversationFrom(table, turns, 1, "")

(***************************************************************************)
(* Inputs of the formatter operations.                                     *)
(***************************************************************************)
MaxTurns == 3

FamilyNames == Families \cup {"mistral"}
Roles == {"preamble", "system", "user", "assistant", "system_and_user", "tool"}
SlotNames == {"system", "message", "bos"}
Texts == {"", "Hi", "You are helpful.", "|message|", "<|eot_id|>"}

SlotValues == UNION { [S -> Texts] : S \in SUBSET SlotNames }

ConvTurns ==
    { [role |-> "preamble",        sv |-> <<>>],
      [role |-> "system",          sv |-> [message |-> "Be brief."]],
      [role |-> "user",            sv |-> [message |-> "Hi"]],
      [role |-> "assistant",       sv |-> [message |-> "Hello"]],
      [role |-> "system_and_user", sv |-> [system |-> "Be brief.", message |-> "Hi"]],
      [role |-> "user",            sv |-> <<>>],
      [role |-> "assistant",       sv |-> [message |-> "Hello", bos |-> "Hi"]],
      [role |-> "tool",            sv |-> [message |-> "Hi"]] }

Conversations == UNION { [1..n -> ConvTurns] : n \in 0..MaxTurns }

NoCall == [op |-> "none"]
NoResult == [status |-> "none", text |-> None, error |-> None]

(***************************************************************************)
(* Formatter actions. The formatter keeps no state between calls, so the   *)
(* model follows one call on each constructed formatter; constructing      *)
(* again starts afresh.                                                    *)
(***************************************************************************)
Construct(f) ==
    /\ IF f \in Families
       THEN family' = f /\ fstatus' = "ready"
       ELSE family' = None /\ fstatus' = "ConfigurationError"
    /\ call' = NoCall
    /\ result' = NoResult
    /\ UNCHANGED rvars

DoRender(role, sv) ==
    /\ fstatus = "ready"
    /\ call = NoCall
    /\ call' = [op |-> "render", role |-> role, sv |-> sv]
    /\ result' = Render(TEMPLATE(family), role, sv)
    /\ UNCHANGED <<family, fstatus>>
    /\ UNCHANGED rvars

DoRenderConversation(turns) ==
    /\ fstatus = "ready"
    /\ call = NoCall
    /\ call' = [op |-> "render_conversation", turns |-> turns]
    /\ result' = RenderConversation(TEMPLATE(family), turns)
    /\ UNCHANGED <<family, fstatus>>
    /\ UNCHANGED rvars

NoRecipe == [called |-> FALSE]

Init ==
    /\ family = None
    /\ fstatus = "none"
    /\ call = NoCall
    /\ result = NoResult
    /\ pre = NoRecipe
    /\ prePrev = NoRecipe
    /\ fin = NoRecipe

FormatterNext ==
    \/ \E f \in FamilyNames : Construct(f)
    \/ \E role \in Roles, sv \in SlotValues : DoRender(role, sv)
    \/ \E turns \in Conversations : DoRenderConversation(turns)

FormatterSpec == Init /\ [][FormatterNext]_vars

(***************************************************************************)
(* llama3_8b_flops.py. A run.Config / run.Partial is a record of the       *)
(* target and the arguments it was given; attribute values that live in    *)
(* other modules are kept symbolic.                                        *)
(***************************************************************************)
NAME == "llama3_8b_flops"
DefaultBaseDir == "/ifs/data/nemo2.0_writecheckpoints"

\* Attributes of a configuration object: the fields of its record.
HasAttr(obj, k) == k \in DOMAIN obj
SetAttr(obj, k, v) == [x \in DOMAIN obj \cup {k} |-> IF x = k THEN v ELSE obj[x]]

\* An Optional[int] or Optional[bool] argument: <<>> for None, <<v>> for v.
Nothing == <<>>
Some(v) == <<v>>

UpperCase == "ABCDEFGHIJKLMNOPQRSTUVWXYZ"
LowerCase == "abcdefghijklmnopqrstuvwxyz"

\* str.lower()
LowerChar(c) ==
    IF \E k \in 1..Len(UpperCase) : SubSeq(UpperCase, k, k) = c
    THEN LET k == CHOOSE k \in 1..Len(UpperCase) : SubSeq(UpperCase, k, k) = c
         IN  SubSeq(LowerCase, k, k)
    ELSE c

Lower(s) == Concat([k \in 1..Len(s) |-> LowerChar(SubSeq(s, k, k))])

\* os.path.join(a, b)
PathJoin(a, b) ==
    IF StartsWithAt(b, 1, "/") THEN b
    ELSE IF a = "" \/ SubSeq(a, Len(a), Len(a)) = "/" THEN a \o b
    ELSE a \o "/" \o b

\* datetime.now().strftime(fmt) for the t-th second of 2024-01-01 (t < 10)
Digits == "0123456789"
StrftimeCompact(t) == "20240101_00000" \o SubSeq(Digits, t + 1, t + 1)
StrftimeDated(t) == "2024-01-01_00-00-0" \o SubSeq(Digits, t + 1, t + 1)

\* `dir if dir else <default>`
BaseDir(dir) == IF dir = None \/ dir = "" THEN DefaultBaseDir ELSE dir

Model ==
    [target |-> "LlamaModel", config |-> [target |-> "Llama3Config8B"]]

Trainer(num_nodes, num_gpus_per_node, callbacks) ==
    [ target |-> "nl.Trainer",
      accelerator |-> "gpu",
      accumulate_grad_batches |-> 1,
      callbacks |-> callbacks,
      devices |-> num_gpus_per_node,
      limit_test_batches |-> 50,
      limit_val_batches |-> 32,
      log_every_n_steps |-> 10,
      max_steps |-> 1168251,
      num_nodes |-> num_nodes,
      plugins |-> "bf16_mixed()",
      strategy |->
        [ target |-> "nl.MegatronStrategy",
          tensor_model_parallel_size |-> 1,
          pipeline_model_parallel_size |-> 1,
          pipeline_dtype |-> None,
          virtual_pipeline_model_parallel_size |-> None,
          context_parallel_size |-> 2,
          sequence_parallel |-> FALSE,
          gradient_as_bucket_view |-> TRUE,
          ckpt_async_save |-> TRUE,
          ckpt_parallel_load |-> TRUE,
          ddp |-> [ check_for_nan_in_grad |-> TRUE,
                    grad_reduce_in_fp32 |-> TRUE,
                    overlap_grad_reduce |-> TRUE,
                    overlap_param_gather |-> TRUE,
                    average_in_collective |-> TRUE ] ],
      use_distributed_sampler |-> FALSE,
      val_check_interval |-> 2000 ]

TimingCallback == [target |-> "TimingCallback"]
DeltaTimingCallback == [target |-> "DeltaTimingCallback"]
CommOverlapCallback == [target |-> "MegatronCommOverlapCallback", tp_comm_overlap |-> FALSE]
GarbageCollectionCallback == [target |-> "GarbageCollectionCallback", args |-> <<100, 100>>]

PretrainPerformanceOptimizations(recipe) ==
    [recipe EXCEPT !.trainer.callbacks = Append(@, CommOverlapCallback)]

\* experiment_name = f"default_{timestamp}"
PretrainExperimentName(name, timestamp) == "default_" \o timestamp

pretrain_recipe(dir, name, num_nodes, num_gpus_per_node, performance_mode, now) ==
    LET data_config ==
            [ target |-> "MockDataModule", seq_length |-> 8192,
              global_batch_size |-> 512, micro_batch_size |-> 1 ]
        base_dir == BaseDir(dir)
        timestamp == StrftimeCompact(now)
        experiment_name == PretrainExperimentName(name, timestamp)
        log_dir == PathJoin(base_dir, experiment_name)
        flops_config ==
            [ run |-> [name |-> NAME],
              model |-> [ global_batch_size |-> data_config.global_batch_size,
                          hidden_size |-> "Llama3Config8B.hidden_size",
                          num_layers |-> "Llama3Config8B.num_layers",
                          num_attention_heads |-> "Llama3Config8B.num_attention_heads",
                          ffn_hidden_size |-> "Llama3Config8B.ffn_hidden_size",
                          encoder_seq_length |-> data_config.seq_length ],
              trainer |-> [num_nodes |-> num_nodes, devices |-> num_gpus_per_node],
              exp_manager |-> [ explicit_log_dir |-> log_dir,
                                exp_dir |-> log_dir,
                                create_tensorboard_logger |-> TRUE,
                                tensorboard_dir |-> PathJoin(log_dir, "tensorboard") ] ]
        tb_logger ==
            [target |-> "tensorboard_logger", name |-> experiment_name, save_dir |-> base_dir]
        recipe ==
            [ fn |-> "pretrain",
              model |-> Model,
              trainer |-> Trainer(num_nodes, num_gpus_per_node,
                            << TimingCallback,
                               [ target |-> "FLOPsMeasurementCallback",
                                 model_config |-> flops_config ] >>),
              data |-> data_config,
              log |-> [ target |-> "default_log", dir |-> base_dir,
                        name |-> experiment_name, tensorboard_logger |-> tb_logger ],
              optim |-> [ target |-> "distributed_fused_adam_with_cosine_annealing",
                          max_lr |-> "3e-4" ],
              resume |-> [target |-> "default_resume"] ]
    IN  IF performance_mode THEN PretrainPerformanceOptimizations(recipe) ELSE recipe

\* default_finetune_recipe lives in recipes/finetune_default.py, outside
\* the fragment: only the attributes finetune_recipe reads or overwrites.
default_finetune_recipe(model, resume_path, dir, name, num_nodes, num_gpus_per_node, packed_sequence) ==
    [ fn |-> "finetune",
      model |-> model,
      trainer |-> [ target |-> "nl.Trainer",
                    num_nodes |-> num_nodes,
                    devices |-> num_gpus_per_node,
                    plugins |-> [target |-> "bf16_mixed"],
                    strategy |-> [ target |-> "nl.MegatronStrategy",
                                   tensor_model_parallel_size |-> 1 ] ],
      data |-> IF packed_sequence
               THEN [ target |-> "SquadDataModule",
                      seq_length |-> 2048,
                      global_batch_size |-> 128,
                      micro_batch_size |-> 1,
                      dataset_kwargs |-> [pad_to_max_length |-> TRUE],
                      packed_sequence_specs |-> [packed_sequence_size |-> 2048] ]
               ELSE [ target |-> "SquadDataModule",
                      seq_length |-> 2048,
                      global_batch_size |-> 128,
                      micro_batch_size |-> 1 ],
      log |-> [target |-> "default_log", dir |-> dir, name |-> name],
      optim |-> [config |-> [lr |-> "1e-4"]],
      resume |-> [restore_config |-> [path |-> resume_path]] ]

\* `if not hasattr(recipe.trainer, "callbacks"): recipe.trainer.callbacks = []`
EnsureCallbacks(recipe) ==
    IF ~HasAttr(recipe.trainer, "callbacks")
    THEN [recipe EXCEPT !.trainer = SetAttr(@, "callbacks", <<>>)]
    ELSE recipe

finetune_performance_optimizations(recipe, peft_scheme) ==
    LET r1 == EnsureCallbacks(
                  [recipe EXCEPT !.trainer.strategy.tensor_model_parallel_size = 1])
        r2 == IF peft_scheme = None \/ Lower(peft_scheme) = "none"
              THEN [r1 EXCEPT
                      !.trainer.plugins = SetAttr(@, "grad_reduce_in_fp32", FALSE),
                      !.trainer.strategy = SetAttr(@, "ddp",
                          [ check_for_nan_in_grad |-> TRUE,
                            grad_reduce_in_fp32 |-> FALSE,
                            overlap_grad_reduce |-> TRUE,
                            overlap_param_gather |-> TRUE,
                            average_in_collective |-> TRUE ]),
                      !.trainer.callbacks = Append(@, CommOverlapCallback)]
              ELSE [r1 EXCEPT !.peft = SetAttr(@, "target_modules", <<"linear_qkv">>)]
    IN  [r2 EXCEPT !.trainer.callbacks =
                      Append(Append(@, TimingCallback), GarbageCollectionCallback)]

\* `if packed_sequence is None: packed_sequence = performance_mode`
ResolvePackedSequence(packed_sequence, performance_mode) ==
    IF packed_sequence = Nothing THEN performance_mode ELSE packed_sequence[1]

ResolveSeqLength_Swapped(seq_length, packed_sequence) ==
    IF seq_length = Nothing
    THEN (IF packed_sequence THEN 2048 ELSE 4096)
    ELSE seq_length[1]

\* `if seq_length is None: seq_length = 4096 if packed_sequence else 2048`
ResolveSeqLength(seq_length, packed_sequence) ==
    IF seq_length = Nothing
    THEN (IF packed_sequence THEN 4096 ELSE 2048)
    ELSE seq_length[1]

Raised(e) == [raised |-> e]
Returned(r) == [raised |-> None, recipe |-> r]

\* The peft branch of finetune_recipe.
ApplyPeft(recipe, peft_scheme) ==
    IF peft_scheme = None \/ Lower(peft_scheme) = "none"
    THEN Returned([recipe EXCEPT !.trainer.strategy.tensor_model_parallel_size = 2,
                                 !.optim.config.lr = "5e-6"])
    ELSE IF Lower(peft_scheme) \in {"lora"}
    THEN Returned(
           [SetAttr(recipe, "peft",
                    [ target |-> "LoRA", dim |-> 8, alpha |-> 16,
                      target_modules |-> <<"linear_qkv">> ])
              EXCEPT !.model.config = SetAttr(@, "cross_entropy_loss_fusion", FALSE),
                     !.optim.config.lr = "1e-4"])
    ELSE Raised("ValueError")

finetune_recipe(dir, name, num_nodes, num_gpus_per_node, peft_scheme, seq_length0, packed_sequence0, performance_mode, now1, now2) ==
    LET packed_sequence == ResolvePackedSequence(packed_sequence0, performance_mode)
        seq_length == ResolveSeqLength(seq_length0, packed_sequence)
        base_dir == BaseDir(dir)
        timestamp == StrftimeCompact(now1)
        experiment_name == "finetune_" \o timestamp
        dated_timestamp == StrftimeDated(now2)
        tb_events_dir ==
            PathJoin(PathJoin(PathJoin(base_dir, "tb_logs"), experiment_name),
                     dated_timestamp)
        r0 == default_finetune_recipe(Model, "meta-llama/Meta-Llama-3-8B", base_dir,
                                      experiment_name, num_nodes, num_gpus_per_node,
                                      packed_sequence)
        peft == ApplyPeft(r0, peft_scheme)
    IN  IF peft.raised # None THEN peft
        ELSE
        LET r1 == peft.recipe
            r2 == [r1 EXCEPT !.model.config = SetAttr(@, "seq_length", seq_length),
                             !.data.seq_length = seq_length]
            r3 == IF packed_sequence
                  THEN [r2 EXCEPT !.data =
                          SetAttr(SetAttr(@, "dataset_kwargs", [pad_to_max_length |-> TRUE]),
                                  "packed_sequence_specs",
                                  [packed_sequence_size |-> seq_length])]
                  ELSE r2
            r4 == IF performance_mode
                  THEN finetune_performance_optimizations(r3, peft_scheme)
                  ELSE r3
            flops_config ==
                [ run |-> [name |-> NAME],
                  model |-> [ global_batch_size |-> r4.data.global_batch_size,
                              hidden_size |-> "Llama3Config8B.hidden_size",
                              num_layers |-> "Llama3Config8B.num_layers",
                              num_attention_heads |-> "Llama3Config8B.num_attention_heads",
                              ffn_hidden_size |-> "Llama3Config8B.ffn_hidden_size",
                              encoder_seq_length |-> seq_length,
                              peft |-> IF peft_scheme # None /\ peft_scheme # ""
                                          /\ Lower(peft_scheme) = "lora"
                                       THEN [ type |-> "lora",
                                              lora_rank |-> r4.peft.dim,
                                              num_frozen_layers |-> 0 ]
                                       ELSE None ],
                  trainer |-> [num_nodes |-> num_nodes, devices |-> num_gpus_per_node] ]
            r5 == EnsureCallbacks(r4)
        IN  Returned(
              [r5 EXCEPT !.trainer.callbacks =
                  @ \o << TimingCallback,
                          DeltaTimingCallback,
                          [ target |-> "FLOPsMeasurementCallback",
                            model_config |-> flops_config,
                            log_dir |-> tb_events_dir ] >>])

(***************************************************************************)
(* Inputs of the recipe builders.                                          *)
(***************************************************************************)
MaxClock == 1
MaxNodes == 2

Clock == 0..MaxClock
Dirs == {None, "/logs"}
RunNames == {"default", "my_pretrain"}
NodeCounts == 1..MaxNodes
GpuCounts == {8}
PeftSchemes == {None, "lora", "LoRA", "dora", "DoRA", "none", "None", "full", ""}
SeqLengths == {Nothing, Some(512), Some(4096)}
PackedChoices == {Nothing, Some(TRUE), Some(FALSE)}

(***************************************************************************)
(* Recipe actions: each call is recorded with its arguments.               *)
(***************************************************************************)
PretrainRecipe(dir, name, num_nodes, num_gpus_per_node, performance_mode, now) ==
    /\ prePrev' = pre
    /\ pre' = [ called |-> TRUE,
                args |-> [ dir |-> dir, name |-> name, num_nodes |-> num_nodes,
                           num_gpus_per_node |-> num_gpus_per_node,
                           performance_mode |-> performance_mode ],
                now |-> now,
                recipe |-> pretrain_recipe(dir, name, num_nodes, num_gpus_per_node,
                                           performance_mode, now) ]
    /\ UNCHANGED <<fin, fvars>>

\* finetune_recipe is a function of its arguments and of the two clock
\* readings it takes: the pending call is drawn first, then applied.
FinetuneCalls ==
    { c \in [ dir : Dirs, name : {"default"}, num_nodes : {1},
              num_gpus_per_node : GpuCounts, peft_scheme : PeftSchemes,
              seq_length : SeqLengths, packed_sequence : PackedChoices,
              performance_mode : BOOLEAN, now1 : Clock, now2 : Clock ] :
        c.now1 <= c.now2 }

FinetuneRecipe ==
    /\ ~fin.called
    /\ HasAttr(fin, "args")
    /\ LET a == fin.args
       IN  fin' = [ called |-> TRUE,
                    args |-> a,
                    out |-> finetune_recipe(a.dir, a.name, a.num_nodes,
                                            a.num_gpus_per_node, a.peft_scheme,
                                            a.seq_length, a.packed_sequence,
                                            a.performance_mode, a.now1, a.now2) ]
    /\ UNCHANGED <<pre, prePrev, fvars>>

PretrainNext ==
    \E dir \in Dirs, name \in RunNames, n \in NodeCounts, g \in GpuCounts,
       pm \in BOOLEAN, now \in Clock :
        PretrainRecipe(dir, name, n, g, pm, now)

FinetuneNext == FinetuneRecipe

FinetuneInit ==
    /\ family = None
    /\ fstatus = "none"
    /\ call = NoCall
    /\ result = NoResult
    /\ pre = NoRecipe
    /\ prePrev = NoRecipe
    /\ fin \in {[called |-> FALSE, args |-> c] : c \in FinetuneCalls}

PretrainSpec == Init /\ [][PretrainNext]_vars
FinetuneSpec == FinetuneInit /\ [][FinetuneNext]_vars

(***************************************************************************)
(* Properties of the recipe builders.                                      *)
(***************************************************************************)
Documented(peft_scheme) ==
    peft_scheme = None \/ Lower(peft_scheme) \in {"lora", "dora", "none"}

\* C8: finetune_recipe returns a recipe for every documented peft_scheme
\* ('lora', 'dora', 'none' in any letter case, and None) and raises
\* ValueError only for other values.
C8_DocumentedPeftAccepted ==
    fin.called =>
        /\ Documented(fin.args.peft_scheme) => fin.out.raised = None
        /\ fin.out.raised = "ValueError" => ~Documented(fin.args.peft_scheme)

SameButName(a, b) ==
    /\ a.called /\ b.called
    /\ a.now = b.now
    /\ [a.args EXCEPT !.name = "x"] = [b.args EXCEPT !.name = "x"]
    /\ a.args.name # b.args.name

\* C9: pretrain_recipe names the run after its name argument: two calls
\* that differ only in name give different experiment names to default_log
\* and to the tensorboard logger, and different log directories.
C9_NameNamesTheRun ==
    SameButName(pre, prePrev) =>
        /\ pre.recipe.log.name # prePrev.recipe.log.name
        /\ pre.recipe.log.tensorboard_logger.name
              # prePrev.recipe.log.tensorboard_logger.name
        /\ pre.recipe.trainer.callbacks[2].model_config.exp_manager.exp_dir
              # prePrev.recipe.trainer.callbacks[2].model_config.exp_manager.exp_dir

FlopsCallbacks(recipe) ==
    { i \in DOMAIN recipe.trainer.callbacks :
        recipe.trainer.callbacks[i].target = "FLOPsMeasurementCallback" }

\* C10: in finetune_recipe packed_sequence None means performance_mode, and
\* seq_length None means 4096 when packing and 2048 otherwise; the returned
\* recipe has model.config.seq_length, data.seq_length and the FLOPs
\* callback's encoder_seq_length equal to that length, and
\* packed_sequence_specs (of that size) exactly when packing.
C10_SeqLengthResolution ==
    (fin.called /\ fin.out.raised = None) =>
        LET a == fin.args
            r == fin.out.recipe
            packed == IF a.packed_sequence = Nothing
                      THEN a.performance_mode ELSE a.packed_sequence[1]
            len == IF a.seq_length # Nothing THEN a.seq_length[1]
                   ELSE IF packed THEN 4096 ELSE 2048
        IN  /\ r.model.config.seq_length = len
            /\ r.data.seq_length = len
            /\ Cardinality(FlopsCallbacks(r)) = 1
            /\ \A i \in FlopsCallbacks(r) :
                   r.trainer.callbacks[i].model_config.model.encoder_seq_length = len
            /\ packed <=> HasAttr(r.data, "packed_sequence_specs")
            /\ packed => r.data.packed_sequence_specs = [packed_sequence_size |-> len]

C10_Witness ==
    /\ fin.called /\ fin.out.raised = None
    /\ fin.args.packed_sequence = Nothing /\ fin.args.seq_length = Nothing
    /\ fin.args.performance_mode
    /\ fin.out.recipe.data.packed_sequence_specs = [packed_sequence_size |-> 4096]

(***************************************************************************)
(* Properties of the prompt formatter.                                     *)
(***************************************************************************)
Rendered == fstatus = "ready" /\ call.op = "render"
Conversed == fstatus = "ready" /\ call.op = "render_conversation"

\* C1: for llama3, render(r, {message: m}) with r in {system, user,
\* assistant} returns exactly "<|start_header_id|>" r "<|end_header_id|>",
\* two newlines, m, "<|eot_id|>", and render("preamble", {}) returns exactly
\* "<|begin_of_text|>".
C1_Llama3RenderExact ==
    (Rendered /\ family = "llama3") =>
        /\ (call.role \in {"system", "user", "assistant"} /\ DOMAIN call.sv = {"message"}) =>
              result = Ok("<|start_header_id|>" \o call.role \o "<|end_header_id|>"
                            \o "\n\n" \o call.sv["message"] \o "<|eot_id|>")
        /\ (call.role = "preamble" /\ DOMAIN call.sv = {}) =>
              result = Ok("<|begin_of_text|>")

C1_Witness ==
    /\ Rendered /\ family = "llama3"
    /\ call.role = "user" /\ call.sv = [message |-> "Hi"]
    /\ result.text = "<|start_header_id|>user<|end_header_id|>\n\nHi<|eot_id|>"

\* C2: for llama2, render("system_and_user", {system: s, message: m}) returns
\* exactly the beginning-of-sequence marker, "[INST] <<SYS>>\n", s,
\* "\n<</SYS>>\n\n", m, " [/INST]"; render("assistant", {message: m}) returns
\* exactly m, " ", the end-of-sequence marker. The markers are fixed: a
\* value supplied under their name is not accepted.
C2_Llama2RenderExact ==
    (Rendered /\ family = "llama2") =>
        /\ (call.role = "system_and_user" /\ DOMAIN call.sv = {"system", "message"}) =>
              result = Ok(BOS_SLOT \o "[INST] <<SYS>>\n" \o call.sv["system"]
                            \o "\n<</SYS>>\n\n" \o call.sv["message"] \o " [/INST]")
        /\ (call.role = "assistant" /\ DOMAIN call.sv = {"message"}) =>
              result = Ok(call.sv["message"] \o " " \o EOS_SLOT)
        /\ (call.role \in {"system_and_user", "assistant"} /\ "bos" \in DOMAIN call.sv) =>
              result.status = "error"

C2_Witness ==
    /\ Rendered /\ family = "llama2"
    /\ call.role = "system_and_user"
    /\ call.sv = [system |-> "You are helpful.", message |-> "Hi"]
    /\ result.text = "<BOS>[INST] <<SYS>>\nYou are helpful.\n<</SYS>>\n\nHi [/INST]"

\* C3: in every role of a built-in table, the names written as placeholders
\* in the template are exactly the declared slot names.
C3_PlaceholdersAreSlots ==
    fstatus = "ready" =>
        \A r \in DOMAIN TEMPLATE(family) :
            Placeholders(TEMPLATE(family)[r]) = GetSlots(TEMPLATE(family)[r])

\* The slots each role of each family declares, as the tables are documented.
DocumentedSlots(f, r) ==
    IF f = "llama2"
    THEN (IF r = "system_and_user" THEN {"system", "message"} ELSE {"message"})
    ELSE (IF r = "preamble" THEN {} ELSE {"message"})

DocumentedRoles(f) ==
    IF f = "llama2"
    THEN {"system_and_user", "user", "assistant"}
    ELSE {"preamble", "system", "user", "assistant"}

TurnResults(table, turns) ==
    [i \in 1..Len(turns) |-> Render(table, turns[i].role, turns[i].sv)]

Llama3Example ==
    << [role |-> "preamble", sv |-> <<>>],
       [role |-> "user", sv |-> [message |-> "Hi"]],
       [role |-> "assistant", sv |-> [message |-> "Hello"]] >>

\* C5: when every turn renders, render_conversation returns the turns'
\* outputs concatenated in order with nothing between them; the llama3
\* conversation preamble, user "Hi", assistant "Hello" gives the three
\* outputs joined.
C5_ConversationConcat ==
    Conversed =>
        LET rs == TurnResults(TEMPLATE(family), call.turns)
        IN  /\ (\A i \in DOMAIN rs : rs[i].status = "ok") =>
                  result = Ok(Concat([i \in DOMAIN rs |-> rs[i].text]))
            /\ (family = "llama3" /\ call.turns = Llama3Example) =>
                  result = Ok("<|begin_of_text|>"
                      \o "<|start_header_id|>user<|end_header_id|>\n\nHi<|eot_id|>"
                      \o "<|start_header_id|>assistant<|end_header_id|>\n\nHello<|eot_id|>")

C5_Witness ==
    /\ Conversed /\ family = "llama3" /\ call.turns = Llama3Example
    /\ result.status = "ok"

\* C6: render with a role outside the family's table fails with
\* UnknownRoleError; when a turn of render_conversation fails, the call fails
\* with that turn's error and returns no string.
C6_UnknownRoleAndNoPartialOutput ==
    /\ (Rendered /\ call.role \notin DocumentedRoles(family)) =>
           result = Raise("UnknownRoleError")
    /\ Conversed =>
           LET rs == TurnResults(TEMPLATE(family), call.turns)
               failing == {i \in DOMAIN rs : rs[i].status = "error"}
           IN  failing # {} =>
                   LET k == CHOOSE i \in failing : \A j \in failing : i <= j
                   IN  /\ result.status = "error"
                       /\ result.error = rs[k].error
                       /\ result.text = None
    /\ (Conversed /\ \E i \in DOMAIN call.turns :
                         call.turns[i].role \notin DocumentedRoles(family)) =>
           result.status = "error" /\ result.text = None

C6_Witness ==
    /\ Conversed /\ family = "llama2" /\ Len(call.turns) = 2
    /\ call.turns[1] = [role |-> "user", sv |-> [message |-> "Hi"]]
    /\ call.turns[2].role = "preamble"
    /\ result = Raise("UnknownRoleError")

====
